---- MODULE Spec2Model ----
(***************************************************************************)
(* Stripe subscription reconciliation of Better SaaS: the webhook route    *)
(* (POST /api/webhooks/stripe), its four handlers, and the                 *)
(* createSubscription server action, over the subscriptions and invoices   *)
(* tables of src/server/db/schema.ts.                                      *)
(*                                                                         *)
(* A delivery is split at its suspension points: POST runs synchronously   *)
(* from the signature check to the first awaited database statement        *)
(* (Receive), the statement then commits atomically in the database        *)
(* (Commit).  createSubscription is split at the provider calls and at the *)
(* awaited insert.                                                         *)
(***************************************************************************)
EXTENDS Integers, Sequences, FiniteSets, TLC

\* ---------------------------------------------------------------- bounds
\* the clock runs from 0 to MaxClock
MaxClock == 1
\* the period end, in epoch seconds, that subscription events carry
MaxSec == 2
\* the number of deliveries a behaviour receives
MaxDeliveries == 2

\* ------------------------------------------------------ domains of inputs
Workers == {"w1", "w2"}
SerialWorkers == {"w1"}
UserIds == {"u1", "u2"}
SubIds == {"sub_1", "sub_2"}
\* the provider ids webhook events name
EventSubIds == {"sub_1"}
InvoiceIds == {"in_1", "in_2"}
Null == "null"
\* headers().get("stripe-signature"): a signature that matches the body, one
\* that does not, or null when the request carries no such header
SigHeaders == {"valid", "tampered", Null}
EventStatuses == {"active", "past_due"}
ProviderInitialStatuses == {"incomplete"}
Amounts == {500, 999}
Currencies == {"usd", "eur"}
\* the hosted page of an invoice, which the provider may reissue
HostedUrls == {"https://x", "https://x2"}
\* invoice.customer is the provider's customer reference; the insert uses it
\* as userId, so the foreign key holds only when it happens to be a users.id
CustomerRefs == {"u1", "cus_u1"}
NoSession == "nobody"
\* what auth.api.getSession yields: a signed-in user or nothing
Sessions == {"u1", NoSession}
IdOrder(id) == IF id = "sub_1" THEN 1 ELSE 2

\* PAYMENT_CONFIG.plans
PAYMENT_CONFIG ==
  [basic |-> [id |-> "basic", stripePriceId |-> "price_basic_monthly"],
   pro |-> [id |-> "pro", stripePriceId |-> "price_pro_monthly"],
   enterprise |-> [id |-> "enterprise", stripePriceId |-> "price_enterprise_monthly"]]

PlanInputs == {"basic", "platinum"}

\* the event types the switch of POST names
RegisteredTypes ==
  {"customer.subscription.created", "customer.subscription.updated",
   "customer.subscription.deleted", "invoice.payment_succeeded",
   "invoice.payment_failed"}

SubscriptionTypes ==
  {"customer.subscription.created", "customer.subscription.updated",
   "customer.subscription.deleted"}

InvoiceTypes == {"invoice.payment_succeeded", "invoice.payment_failed"}

\* an event type Stripe sends that the switch does not name
UnregisteredTypes == {"customer.subscription.paused"}

EventTypes == RegisteredTypes \cup UnregisteredTypes

\* the event types sent to the provider-based route: one its switch names and
\* one it does not
ProviderEventTypes == {"customer.subscription.updated", "customer.subscription.paused"}

\* event.data.object of a subscription event
SubscriptionObjects ==
  [id : EventSubIds, status : EventStatuses,
   current_period_start : {1}, current_period_end : {MaxSec},
   cancel_at_period_end : BOOLEAN]

\* what an invoice was paid with: an amount in minor units of a currency
Payments == { p \in Amounts \X Currencies : (p[1] = 999) <=> (p[2] = "usd") }

\* event.data.object of an invoice event
InvoiceObjects ==
  { [id |-> i, customer |-> c, amount_paid |-> p[1], currency |-> p[2],
     hosted_invoice_url |-> h, invoice_pdf |-> "https://y"] :
      i \in InvoiceIds, c \in CustomerRefs, p \in Payments, h \in HostedUrls }

\* the subscription object of a deleted or paused event; of it the code reads id only
\* (a deleted event) or nothing (a paused event)
EndedSubscriptionObjects ==
  [id : EventSubIds, status : {"canceled"},
   current_period_start : {1}, current_period_end : {1},
   cancel_at_period_end : {FALSE}]

\* the payload without one of its fields
Without(obj, field) == [f \in DOMAIN obj \ {field} |-> obj[f]]

\* the fields of event.data.object the handler of an event type reads
ReadFields(type) ==
  CASE type \in {"customer.subscription.created", "customer.subscription.updated"}
         -> {"id", "status", "current_period_start", "current_period_end",
             "cancel_at_period_end"}
    [] type = "invoice.payment_succeeded"
         -> {"id", "customer", "amount_paid", "currency", "hosted_invoice_url",
             "invoice_pdf"}
    [] OTHER -> {"id"}

\* the recognized event types sent with a field missing
MalformedTypes ==
  {"customer.subscription.updated", "invoice.payment_succeeded",
   "invoice.payment_failed"}

\* payloads that lack one field their handler reads
MalformedObjectsOf(type) ==
  IF type = "customer.subscription.updated"
    THEN { Without(o, f) : o \in SubscriptionObjects,
                           f \in {"status", "current_period_start",
                                  "cancel_at_period_end"} }
  ELSE IF type = "invoice.payment_succeeded"
    THEN { Without(o, f) : o \in InvoiceObjects, f \in {"amount_paid", "currency"} }
  ELSE { Without(o, "id") : o \in InvoiceObjects }

ObjectsOf(type) ==
  IF type \in {"customer.subscription.created", "customer.subscription.updated"}
    THEN SubscriptionObjects
  ELSE IF type \in InvoiceTypes THEN InvoiceObjects
  ELSE EndedSubscriptionObjects

\* ------------------------------------------------------------------ state
VARIABLES
  subscriptions,   \* rows of table "subscriptions"
  invoices,        \* rows of table "invoices"
  now,             \* wall clock, read by new Date() and by defaultNow()
  req,             \* in-flight webhook deliveries, per request worker
  act,             \* the createSubscription call in flight
  stripeSubs,      \* subscription ids that exist at the provider
  lastEv,          \* history: per provider id, the last event committed for it
                   \* since the row of the id was inserted
  delivered,       \* history: number of events the provider sent so far
  outbox,          \* the event the provider is delivering until it is acknowledged
  stripeCancels,   \* per provider subscription id, the cancellation the provider holds
  payment,         \* rows of table "payment"
  found            \* what the last findActiveSubscriptionByUserId call returned

vars == <<subscriptions, invoices, now, req, act, stripeSubs, lastEv,
          delivered, outbox, stripeCancels, payment, found>>

NoEv == [type |-> "none"]
IdleReq ==
  [pc |-> "idle", route |-> "direct", sig |-> "valid", type |-> "none",
   obj |-> [id |-> "none"],
   date |-> 0, resp |-> 0, err |-> "none", conc |-> FALSE, replay |-> FALSE,
   early |-> FALSE]
IdleAct == [pc |-> "idle"]
NoCall == [userId |-> "none", rows |-> {}]

\* ------------------------------------------------------- pure operations
\* variant: the epoch seconds are taken as milliseconds
ToDateSeconds(seconds) == seconds

\* new Date(seconds * 1000)
ToDate(seconds) == seconds * 1000

\* variant: only a header that is present and does not match is refused
constructEventAcceptsAbsent(signature) == signature = "tampered"

\* variant: a verification that accepts every signature
constructEventNeverThrows(signature) == FALSE

\* stripe.webhooks.constructEvent: throws unless the signature matches
constructEventThrows(signature) == signature # "valid"

\* stripeProvider.verifyWebhook: whether the signature matches the body
verifyWebhook(signature) == signature = "valid"

\* crypto.randomUUID(): an id no row of the table has
FreshId(table) == CHOOSE n \in 1..(Cardinality(table) + 1) : \A r \in table : r.id # n

\* the id stripe.subscriptions.create gives a subscription: one not issued before
NewSubscriptionId(issued) == CHOOSE id \in SubIds \ issued : \A other \in SubIds \ issued : IdOrder(id) <= IdOrder(other)

\* variant: the session check is skipped
AuthorizedAlways(user) == TRUE

\* session?.user: whether the request carries a signed-in user
Authorized(user) == user # NoSession

\* customers.search / customers.create: the provider's customer of a user
CustomerIdOf(user) == IF user = "u1" THEN "cus_u1" ELSE "cus_u2"

\* whether the payload has the field; reading a field it lacks gives undefined
Has(obj, field) == field \in DOMAIN obj

\* event.data.object.id, or null when the payload has none
EventIdOf(obj) == IF Has(obj, "id") THEN obj.id ELSE Null

\* ------------------------------------------------------------ the schema
\* subscriptions.stripeSubscriptionId is unique()
SubscriptionUniqueViolation(table, values) ==
  \E r \in table : r.id = values.id \/ r.stripeSubscriptionId = values.stripeSubscriptionId

\* userId references users.id
ForeignKeyViolation(values) == values.userId \notin UserIds

Ok(rows) == [err |-> "none", rows |-> rows]
Fail(kind, rows) == [err |-> kind, rows |-> rows]

\* ----------------------------------------------------- webhook handlers
\* Each handler is one awaited statement; the operator is the statement's
\* effect on the table it commits against.  date is the value new Date()
\* had when the handler built the statement.

\* variant: the period end is pushed on from the stored one instead of taken
\* from the event
handleSubscriptionUpdateExtending(table, subscription, date) ==
  Ok({ IF r.stripeSubscriptionId = subscription.id
         THEN [r EXCEPT !.status = subscription.status,
                        !.currentPeriodStart = ToDate(subscription.current_period_start),
                        !.currentPeriodEnd = r.currentPeriodEnd
                                             + ToDate(subscription.current_period_end),
                        !.cancelAtPeriodEnd = subscription.cancel_at_period_end,
                        !.updatedAt = date]
         ELSE r : r \in table })

\* variant: the statement has no where clause
handleSubscriptionUpdateUnkeyed(table, subscription, date) ==
  Ok({ [r EXCEPT !.status = subscription.status,
                 !.currentPeriodStart = ToDate(subscription.current_period_start),
                 !.currentPeriodEnd = ToDate(subscription.current_period_end),
                 !.cancelAtPeriodEnd = subscription.cancel_at_period_end,
                 !.updatedAt = date] : r \in table })

\* variant: a canceled row is left alone
handleSubscriptionUpdateGuarded(table, subscription, date) ==
  Ok({ IF r.stripeSubscriptionId = subscription.id /\ r.status # "canceled"
         THEN [r EXCEPT !.status = subscription.status,
                        !.currentPeriodStart = ToDate(subscription.current_period_start),
                        !.currentPeriodEnd = ToDate(subscription.current_period_end),
                        !.cancelAtPeriodEnd = subscription.cancel_at_period_end,
                        !.updatedAt = date]
         ELSE r : r \in table })

\* variant: the event is stored as a new row instead of updating the keyed one
handleSubscriptionUpdateInserting(table, subscription, date) ==
  Ok(table \cup
     {[id |-> FreshId(table),
       userId |-> "u1",
       stripeSubscriptionId |-> subscription.id,
       stripeCustomerId |-> Null,
       stripePriceId |-> Null,
       status |-> subscription.status,
       planId |-> "basic",
       currentPeriodStart |-> ToDate(subscription.current_period_start),
       currentPeriodEnd |-> ToDate(subscription.current_period_end),
       cancelAtPeriodEnd |-> subscription.cancel_at_period_end,
       createdAt |-> date,
       updatedAt |-> date]})

\* new Date(undefined * 1000) is an Invalid Date, which a timestamp column
\* cannot be given: building the statement throws.  A key of set() whose value
\* is undefined is left out of the SET clause.
handleSubscriptionUpdate(table, subscription, date) ==
  IF ~Has(subscription, "current_period_start") \/ ~Has(subscription, "current_period_end")
    THEN Fail("invalid_date", table)
  ELSE
  Ok({ IF r.stripeSubscriptionId = subscription.id
         THEN [r EXCEPT !.status = IF Has(subscription, "status")
                                     THEN subscription.status ELSE @,
                        !.currentPeriodStart = ToDate(subscription.current_period_start),
                        !.currentPeriodEnd = ToDate(subscription.current_period_end),
                        !.cancelAtPeriodEnd = IF Has(subscription, "cancel_at_period_end")
                                                THEN subscription.cancel_at_period_end
                                                ELSE @,
                        !.updatedAt = date]
         ELSE r : r \in table })

\* handleSubscriptionUpdated of the provider-based route: the projection of a
\* customer.subscription.updated event onto the row of its provider id
handleSubscriptionUpdated(table, subscription, date) ==
  handleSubscriptionUpdate(table, subscription, date)

\* variant: the cancellation deletes the row
handleSubscriptionDeletedRemoving(table, subscription, date) ==
  Ok({ r \in table : r.stripeSubscriptionId # subscription.id })

\* variant: the cancellation also clears cancelAtPeriodEnd, as cancelSubscription does
handleSubscriptionDeletedClearing(table, subscription, date) ==
  Ok({ IF r.stripeSubscriptionId = subscription.id
         THEN [r EXCEPT !.status = "canceled", !.cancelAtPeriodEnd = FALSE,
                        !.updatedAt = date]
         ELSE r : r \in table })

handleSubscriptionDeleted(table, subscription, date) ==
  Ok({ IF r.stripeSubscriptionId = subscription.id
         THEN [r EXCEPT !.status = "canceled", !.updatedAt = date]
         ELSE r : r \in table })

\* the row a first delivery of an invoice inserts
NewInvoiceRow(table, invoice, dbNow) ==
  [id |-> FreshId(table),
   userId |-> invoice.customer,
   subscriptionId |-> Null,
   stripeInvoiceId |-> invoice.id,
   amount |-> invoice.amount_paid,
   currency |-> IF Has(invoice, "currency") THEN invoice.currency ELSE "usd",
   status |-> "paid",
   hostedInvoiceUrl |-> invoice.hosted_invoice_url,
   invoicePdf |-> invoice.invoice_pdf,
   createdAt |-> dbNow]

\* variant: on conflict only the status is set, the links are left as stored
handleInvoicePaymentSucceededKeepingUrls(table, invoice, dbNow) ==
  IF \E r \in table : r.stripeInvoiceId = invoice.id
    THEN Ok({ IF r.stripeInvoiceId = invoice.id
                THEN [r EXCEPT !.status = "paid"]
                ELSE r : r \in table })
  ELSE IF ForeignKeyViolation([userId |-> invoice.customer])
    THEN Fail("foreign_key", table)
  ELSE Ok(table \cup {NewInvoiceRow(table, invoice, dbNow)})

\* variant: on conflict the amount and the currency are overwritten as well
handleInvoicePaymentSucceededOverwriting(table, invoice, dbNow) ==
  IF \E r \in table : r.stripeInvoiceId = invoice.id
    THEN Ok({ IF r.stripeInvoiceId = invoice.id
                THEN [r EXCEPT !.status = "paid",
                               !.amount = invoice.amount_paid,
                               !.currency = invoice.currency,
                               !.hostedInvoiceUrl = invoice.hosted_invoice_url,
                               !.invoicePdf = invoice.invoice_pdf]
                ELSE r : r \in table })
  ELSE IF ForeignKeyViolation([userId |-> invoice.customer])
    THEN Fail("foreign_key", table)
  ELSE Ok(table \cup {NewInvoiceRow(table, invoice, dbNow)})

\* insert(invoices).values(..).onConflictDoUpdate(target: stripeInvoiceId);
\* a value that is undefined takes the column's default, and amount is
\* notNull() without one
handleInvoicePaymentSucceeded(table, invoice, dbNow) ==
  IF ~Has(invoice, "amount_paid")
    THEN Fail("not_null", table)
  ELSE IF \E r \in table : r.stripeInvoiceId = invoice.id
    THEN Ok({ IF r.stripeInvoiceId = invoice.id
                THEN [r EXCEPT !.status = "paid",
                               !.hostedInvoiceUrl = invoice.hosted_invoice_url,
                               !.invoicePdf = invoice.invoice_pdf]
                ELSE r : r \in table })
  ELSE IF ForeignKeyViolation([userId |-> invoice.customer])
    THEN Fail("foreign_key", table)
  ELSE Ok(table \cup {NewInvoiceRow(table, invoice, dbNow)})

\* variant: the invoice.payment_failed case shares the body of the
\* invoice.payment_succeeded case
RoutePaymentFailedStores(type) ==
  CASE type \in {"customer.subscription.created", "customer.subscription.updated"}
         -> "handleSubscriptionUpdate"
    [] type = "customer.subscription.deleted" -> "handleSubscriptionDeleted"
    [] type \in {"invoice.payment_succeeded", "invoice.payment_failed"}
         -> "handleInvoicePaymentSucceeded"
    [] OTHER -> "unhandled"

\* variant: the default case falls into the deleted handler
RouteDefaultFalls(type) ==
  CASE type \in {"customer.subscription.created", "customer.subscription.updated"}
         -> "handleSubscriptionUpdate"
    [] type = "invoice.payment_succeeded" -> "handleInvoicePaymentSucceeded"
    [] type = "invoice.payment_failed" -> "handleInvoicePaymentFailed"
    [] OTHER -> "handleSubscriptionDeleted"

\* the switch of POST: the handler an event type selects
Route(type) ==
  CASE type \in {"customer.subscription.created", "customer.subscription.updated"}
         -> "handleSubscriptionUpdate"
    [] type = "customer.subscription.deleted" -> "handleSubscriptionDeleted"
    [] type = "invoice.payment_succeeded" -> "handleInvoicePaymentSucceeded"
    [] type = "invoice.payment_failed" -> "handleInvoicePaymentFailed"
    [] OTHER -> "unhandled"

\* handleStripeEvent, the switch of the provider-based route; it has no default
ProviderRoute(type) ==
  CASE type = "customer.subscription.updated" -> "handleSubscriptionUpdated"
    [] OTHER -> "unhandled"

\* the handler a received request selected
HandlerOf(r) == IF r.route = "provider" THEN ProviderRoute(r.type) ELSE Route(r.type)

\* handlers that await a database statement
AwaitsDb(handler) ==
  handler \in {"handleSubscriptionUpdate", "handleSubscriptionDeleted",
               "handleInvoicePaymentSucceeded", "handleSubscriptionUpdated"}

\* handlers that evaluate new Date() while building their statement
CallsNewDate(handler) ==
  handler \in {"handleSubscriptionUpdate", "handleSubscriptionDeleted",
               "handleSubscriptionUpdated"}

\* handlers whose statement is on the subscriptions table
OnSubscriptions(handler) ==
  handler \in {"handleSubscriptionUpdate", "handleSubscriptionDeleted",
               "handleSubscriptionUpdated"}

\* variant: the catch block of the handlers answers as the catch block of
\* the verification does
RespondBadRequest(err) == IF err = "none" THEN 200 ELSE 400

\* variant: the catch block logs and acknowledges
RespondSwallowing(err) == 200

\* the status POST answers with, by what the try block did
Respond(err) == IF err = "none" THEN 200 ELSE 500

\* the record of an answered delivery: what was asked and what was answered
Answered(r, status, err) ==
  [r EXCEPT !.pc = "done", !.resp = status, !.err = err,
            !.obj = [id |-> EventIdOf(r.obj)], !.date = 0]

OtherWorkersOn(w, r) ==
  { v \in Workers \ {w} : req[v].pc = "awaitDb" /\ req[v].obj.id = r.obj.id }

\* variant: the row is stored as active whatever the provider reported
InsertSubscriptionActive(table, values, dbNow) ==
  LET row == [id |-> FreshId(table),
              userId |-> values.userId,
              stripeSubscriptionId |-> values.stripeSubscriptionId,
              stripeCustomerId |-> values.stripeCustomerId,
              stripePriceId |-> values.stripePriceId,
              status |-> "active",
              planId |-> values.planId,
              currentPeriodStart |-> values.currentPeriodStart,
              currentPeriodEnd |-> values.currentPeriodEnd,
              cancelAtPeriodEnd |-> FALSE,
              createdAt |-> dbNow,
              updatedAt |-> dbNow]
  IN IF SubscriptionUniqueViolation(table, row) THEN Fail("unique", table)
     ELSE IF ForeignKeyViolation(row) THEN Fail("foreign_key", table)
     ELSE Ok(table \cup {row})

\* db.insert(subscriptions).values(..), with the columns' defaults
InsertSubscription(table, values, dbNow) ==
  LET row == [id |-> FreshId(table),
              userId |-> values.userId,
              stripeSubscriptionId |-> values.stripeSubscriptionId,
              stripeCustomerId |-> values.stripeCustomerId,
              stripePriceId |-> values.stripePriceId,
              status |-> values.status,
              planId |-> values.planId,
              currentPeriodStart |-> values.currentPeriodStart,
              currentPeriodEnd |-> values.currentPeriodEnd,
              cancelAtPeriodEnd |-> FALSE,
              createdAt |-> dbNow,
              updatedAt |-> dbNow]
  IN IF SubscriptionUniqueViolation(table, row) THEN Fail("unique", table)
     ELSE IF ForeignKeyViolation(row) THEN Fail("foreign_key", table)
     ELSE Ok(table \cup {row})

\* ------------------------------------------------------ cancelSubscription
\* the conditions cancelSubscription hands to .where(), in call order
CancelWhereCalls(user, subscriptionId) ==
  << [column |-> "userId", value |-> user],
     [column |-> "stripeSubscriptionId", value |-> subscriptionId] >>

\* the WHERE clause of a select: each .where() call sets the builder's one
\* clause, so the clause is the condition of the last call
WhereClause(calls) == calls[Len(calls)]

\* db.select().from(subscriptions).where(..).where(..)
SelectSubscription(table, user, subscriptionId) ==
  LET clause == WhereClause(CancelWhereCalls(user, subscriptionId))
  IN { r \in table : r[clause.column] = clause.value }

\* what the provider holds after stripe.subscriptions.cancel or
\* stripe.subscriptions.update(cancel_at_period_end: true)
ProviderCancellation(immediate) == IF immediate THEN "canceled" ELSE "at_period_end"

\* variant: both branches mark the row canceled
CancelUpdateAlwaysCanceling(table, subscriptionId, immediate, date) ==
  Ok({ IF r.stripeSubscriptionId = subscriptionId
         THEN IF immediate
                THEN [r EXCEPT !.status = "canceled", !.cancelAtPeriodEnd = FALSE,
                               !.updatedAt = date]
                ELSE [r EXCEPT !.status = "canceled", !.cancelAtPeriodEnd = TRUE,
                               !.updatedAt = date]
         ELSE r : r \in table })

\* the db.update(subscriptions) of cancelSubscription, by branch
CancelUpdate(table, subscriptionId, immediate, date) ==
  Ok({ IF r.stripeSubscriptionId = subscriptionId
         THEN IF immediate
                THEN [r EXCEPT !.status = "canceled", !.cancelAtPeriodEnd = FALSE,
                               !.updatedAt = date]
                ELSE [r EXCEPT !.cancelAtPeriodEnd = TRUE, !.updatedAt = date]
         ELSE r : r \in table })

\* ---------------------------------------------------------------- actions
\* The tables a deployment starts from: empty, or holding the rows two
\* earlier createSubscription calls left, one of user u1 and one of user u2.
SeedOwner(id) == IF id = "sub_1" THEN "u1" ELSE "u2"

SeedValues(id) ==
  [userId |-> SeedOwner(id), stripeSubscriptionId |-> id,
   stripeCustomerId |-> CustomerIdOf(SeedOwner(id)),
   stripePriceId |-> PAYMENT_CONFIG["basic"].stripePriceId, status |-> "incomplete",
   planId |-> "basic", currentPeriodStart |-> ToDate(1), currentPeriodEnd |-> ToDate(1)]

SeededTable ==
  InsertSubscription(InsertSubscription({}, SeedValues("sub_1"), 0).rows,
                     SeedValues("sub_2"), 0).rows

Init ==
  /\ subscriptions \in {{}, SeededTable}
  /\ invoices = {}
  /\ now = 0
  /\ req = [w \in Workers |-> IdleReq]
  /\ act = IdleAct
  /\ stripeSubs = {r.stripeSubscriptionId : r \in subscriptions}
  /\ lastEv = [s \in SubIds |-> NoEv]
  /\ delivered = 0
  /\ outbox = NoEv
  /\ stripeCancels = [s \in SubIds |-> "none"]
  /\ payment = {}
  /\ found = NoCall

Tick ==
  /\ now < MaxClock
  /\ now' = now + 1
  /\ UNCHANGED <<stripeCancels, payment, found, subscriptions, invoices, req, act, stripeSubs, lastEv,
                  delivered, outbox>>

\* createSubscription holds the provider's new subscription id and its
\* insert of the row has not committed yet
PendingInsertOf(id) ==
  act.pc = "awaitDb" /\ act.values.stripeSubscriptionId = id

\* POST up to its first suspension point: verify, dispatch, build the statement
Post(w, sig, type, obj) ==
  LET r == [IdleReq EXCEPT !.sig = sig, !.type = type, !.obj = obj,
                           !.date = IF CallsNewDate(Route(type)) THEN now ELSE 0,
                           !.early = PendingInsertOf(EventIdOf(obj))]
  IN req' = [req EXCEPT ![w] =
       IF constructEventThrows(sig)
         THEN Answered(r, 400, "signature")
       ELSE IF AwaitsDb(Route(type))
         THEN [r EXCEPT !.pc = "awaitDb"]
       ELSE Answered(r, Respond("none"), "none")]

\* a delivery of an event the provider sends once, of one of the given types
\* and with one of the given signature headers
ReceiveOf(w, types, sigs) ==
  /\ req[w].pc \in {"idle", "done"}
  /\ delivered < MaxDeliveries
  /\ delivered' = delivered + 1
  /\ \E sig \in sigs, type \in types :
       \E obj \in ObjectsOf(type) : Post(w, sig, type, obj)
  /\ UNCHANGED <<stripeCancels, payment, found, subscriptions, invoices, now, act, stripeSubs, lastEv, outbox>>

\* POST of the provider-based route up to its first suspension point: the
\* header check, verifyWebhook, constructWebhookEvent, handleStripeEvent
ProviderReceive(w) ==
  /\ req[w].pc \in {"idle", "done"}
  /\ delivered < MaxDeliveries
  /\ delivered' = delivered + 1
  /\ \E sig \in SigHeaders, type \in ProviderEventTypes :
       \E obj \in ObjectsOf(type) :
         LET r == [IdleReq EXCEPT !.route = "provider", !.sig = sig, !.type = type,
                                  !.obj = obj,
                                  !.date = IF CallsNewDate(ProviderRoute(type))
                                             THEN now ELSE 0]
         IN req' = [req EXCEPT ![w] =
              IF sig = Null
                THEN Answered(r, 400, "missing_signature")
              ELSE IF ~verifyWebhook(sig)
                THEN Answered(r, 400, "signature")
              ELSE IF AwaitsDb(ProviderRoute(type))
                THEN [r EXCEPT !.pc = "awaitDb"]
              ELSE Answered(r, Respond("none"), "none")]
  /\ UNCHANGED <<stripeCancels, payment, found, subscriptions, invoices, now, act, stripeSubs, lastEv, outbox>>

\* the awaited statement commits (or fails), and POST answers
Commit(w) ==
  /\ req[w].pc = "awaitDb"
  /\ \E fault \in BOOLEAN :
       LET r == req[w]
           h == HandlerOf(r)
           res == IF fault
                    THEN Fail("database", {})
                  ELSE IF h = "handleSubscriptionUpdate"
                    THEN handleSubscriptionUpdate(subscriptions, r.obj, r.date)
                  ELSE IF h = "handleSubscriptionUpdated"
                    THEN handleSubscriptionUpdated(subscriptions, r.obj, r.date)
                  ELSE IF h = "handleSubscriptionDeleted"
                    THEN handleSubscriptionDeleted(subscriptions, r.obj, r.date)
                  ELSE handleInvoicePaymentSucceeded(invoices, r.obj, now)
           onSubs == OnSubscriptions(h)
           others == OtherWorkersOn(w, r)
       IN /\ subscriptions' = IF res.err = "none" /\ onSubs THEN res.rows ELSE subscriptions
          /\ invoices' = IF res.err = "none" /\ ~onSubs THEN res.rows ELSE invoices
          /\ req' = [v \in Workers |->
                       IF v = w
                         THEN [Answered(r, Respond(res.err), res.err)
                                 EXCEPT !.conc = r.conc \/ others # {},
                                        !.replay = onSubs /\ lastEv[r.obj.id] =
                                                     [type |-> r.type, obj |-> r.obj],
                                        !.early = r.early /\ PendingInsertOf(r.obj.id)]
                       ELSE IF v \in others THEN [req[v] EXCEPT !.conc = TRUE]
                       ELSE req[v]]
          /\ lastEv' = IF res.err = "none" /\ onSubs
                         THEN [lastEv EXCEPT ![r.obj.id] = [type |-> r.type, obj |-> r.obj]]
                       ELSE lastEv
  /\ UNCHANGED <<stripeCancels, payment, found, now, act, stripeSubs, delivered, outbox>>

\* createSubscription up to the awaited insert: session, plan, provider calls
CreateStart ==
  /\ act.pc \in {"idle", "done"}
  /\ \E user \in Sessions, planId \in PlanInputs, providerOk \in BOOLEAN :
       IF ~Authorized(user)
         THEN /\ act' = [pc |-> "done", error |-> "Unauthorized"]
              /\ UNCHANGED stripeSubs
       ELSE IF planId \notin DOMAIN PAYMENT_CONFIG
         THEN /\ act' = [pc |-> "done", error |-> "Invalid plan"]
              /\ UNCHANGED stripeSubs
       ELSE IF ~providerOk \/ stripeSubs = SubIds
         THEN /\ act' = [pc |-> "done", error |-> "Failed to create subscription"]
              /\ UNCHANGED stripeSubs
       ELSE \E status \in ProviderInitialStatuses, start \in {1}, end \in {1, MaxSec} :
              LET id == NewSubscriptionId(stripeSubs)
              IN
              /\ stripeSubs' = stripeSubs \cup {id}
              /\ act' = [pc |-> "awaitDb",
                         user |-> user,
                         planId |-> planId,
                         subscription |-> [id |-> id, status |-> status,
                                           current_period_start |-> start,
                                           current_period_end |-> end],
                         values |-> [userId |-> user,
                                     stripeSubscriptionId |-> id,
                                     stripeCustomerId |-> CustomerIdOf(user),
                                     stripePriceId |-> PAYMENT_CONFIG[planId].stripePriceId,
                                     status |-> status,
                                     planId |-> planId,
                                     currentPeriodStart |-> ToDate(start),
                                     currentPeriodEnd |-> ToDate(end)]]
  /\ UNCHANGED <<stripeCancels, payment, found, subscriptions, invoices, now, req, lastEv, delivered, outbox>>

\* the awaited insert of createSubscription commits (or fails)
CreateInsert ==
  /\ act.pc = "awaitDb"
  /\ \E fault \in BOOLEAN :
       LET res == IF fault THEN Fail("database", subscriptions)
                  ELSE InsertSubscription(subscriptions, act.values, now)
       IN /\ subscriptions' = res.rows
          /\ act' = IF res.err = "none"
                      THEN [pc |-> "done", error |-> "none",
                            subscriptionId |-> act.values.stripeSubscriptionId]
                    ELSE [pc |-> "done", error |-> "Failed to create subscription"]
          /\ lastEv' = IF res.err = "none"
                         THEN [lastEv EXCEPT ![act.values.stripeSubscriptionId] = NoEv]
                       ELSE lastEv
  /\ UNCHANGED <<stripeCancels, payment, found, invoices, now, req, stripeSubs, delivered, outbox>>

\* a verified delivery of a recognized type whose payload lacks a field
ReceiveMalformed(w) ==
  /\ req[w].pc \in {"idle", "done"}
  /\ delivered < MaxDeliveries
  /\ delivered' = delivered + 1
  /\ \E type \in MalformedTypes :
       \E obj \in MalformedObjectsOf(type) : Post(w, "valid", type, obj)
  /\ UNCHANGED <<stripeCancels, payment, found, subscriptions, invoices, now, act, stripeSubs, lastEv, outbox>>

\* the provider has a new event of a recognized type to deliver
Emit ==
  /\ outbox = NoEv
  /\ delivered < MaxDeliveries
  /\ delivered' = delivered + 1
  /\ \E type \in RegisteredTypes :
       \E obj \in ObjectsOf(type) :
         outbox' = [type |-> type, obj |-> obj, state |-> "queued"]
  /\ UNCHANGED <<stripeCancels, payment, found, subscriptions, invoices, now, req, act, stripeSubs, lastEv>>

\* the provider delivers its event: the first time, and again after each
\* answer of 500
Deliver(w) ==
  /\ outbox # NoEv
  /\ \/ outbox.state = "queued" /\ req[w].pc \in {"idle", "done"}
     \/ outbox.state = "sent" /\ req[w].pc = "done" /\ req[w].resp = 500
  /\ Post(w, "valid", outbox.type, outbox.obj)
  /\ outbox' = [outbox EXCEPT !.state = "sent"]
  /\ UNCHANGED <<stripeCancels, payment, found, subscriptions, invoices, now, act, stripeSubs, lastEv, delivered>>

\* the provider reads an answer of 200 and is done with the event
Ack(w) ==
  /\ outbox # NoEv
  /\ outbox.state = "sent"
  /\ req[w].pc = "done"
  /\ req[w].resp = 200
  /\ outbox' = NoEv
  /\ UNCHANGED <<stripeCancels, payment, found, subscriptions, invoices, now, req, act, stripeSubs, lastEv,
                  delivered>>

\* cancelSubscription up to the awaited select: the session check
CancelStart ==
  /\ act.pc \in {"idle", "done"}
  /\ \E user \in Sessions, subscriptionId \in SubIds, immediate \in BOOLEAN :
       act' = IF ~Authorized(user)
                THEN [pc |-> "done", error |-> "Unauthorized"]
                ELSE [pc |-> "cancelSelect", user |-> user,
                      subscriptionId |-> subscriptionId, immediate |-> immediate,
                      date |-> 0]
  /\ UNCHANGED <<subscriptions, invoices, now, req, stripeSubs, lastEv, delivered,
                  outbox, stripeCancels, payment, found>>

\* the awaited select returns (or fails); without a row the call throws
CancelSelect ==
  /\ act.pc = "cancelSelect"
  /\ \E fault \in BOOLEAN :
       LET rows == SelectSubscription(subscriptions, act.user, act.subscriptionId)
       IN act' = IF fault \/ rows = {}
                   THEN [pc |-> "done", error |-> "Failed to cancel subscription"]
                   ELSE [act EXCEPT !.pc = "cancelProvider"]
  /\ UNCHANGED <<subscriptions, invoices, now, req, stripeSubs, lastEv, delivered,
                  outbox, stripeCancels, payment, found>>

\* the awaited provider call returns (or fails); then the update is built
CancelProvider ==
  /\ act.pc = "cancelProvider"
  /\ \E providerOk \in BOOLEAN :
       IF providerOk /\ act.subscriptionId \in stripeSubs
         THEN /\ stripeCancels' = [stripeCancels EXCEPT ![act.subscriptionId] =
                                     ProviderCancellation(act.immediate)]
              /\ act' = [act EXCEPT !.pc = "cancelUpdate", !.date = now]
         ELSE /\ act' = [pc |-> "done", error |-> "Failed to cancel subscription"]
              /\ UNCHANGED stripeCancels
  /\ UNCHANGED <<subscriptions, invoices, now, req, stripeSubs, lastEv, delivered,
                  outbox, payment, found>>

\* the awaited update of cancelSubscription commits (or fails)
CancelCommit ==
  /\ act.pc = "cancelUpdate"
  /\ \E fault \in BOOLEAN :
       LET res == IF fault THEN Fail("database", subscriptions)
                  ELSE CancelUpdate(subscriptions, act.subscriptionId, act.immediate,
                                    act.date)
       IN /\ subscriptions' = res.rows
          /\ act' = IF res.err = "none"
                      THEN [pc |-> "done", error |-> "none", success |-> TRUE]
                    ELSE [pc |-> "done", error |-> "Failed to cancel subscription"]
  /\ UNCHANGED <<invoices, now, req, stripeSubs, lastEv, delivered, outbox,
                  stripeCancels, payment, found>>

\* a delivery of any event type, with any signature header
Receive(w) == ReceiveOf(w, EventTypes, SigHeaders)

\* a verified delivery whose object is a subscription
ReceiveSubscriptionEvent(w) == ReceiveOf(w, SubscriptionTypes, {"valid"})

\* a verified delivery whose object is an invoice
ReceiveInvoiceEvent(w) == ReceiveOf(w, InvoiceTypes, {"valid"})

\* webhook deliveries of every type, handled one after the other
Next ==
  \/ Tick
  \/ \E w \in SerialWorkers : Receive(w)
  \/ \E w \in SerialWorkers : Commit(w)

Spec == Init /\ [][Next]_vars

\* verified subscription events handled in parallel requests
NextSub ==
  \/ Tick
  \/ \E w \in Workers : ReceiveSubscriptionEvent(w)
  \/ \E w \in Workers : Commit(w)

SpecSub == Init /\ [][NextSub]_vars

\* verified invoice events handled in parallel requests
NextInv ==
  \/ Tick
  \/ \E w \in Workers : ReceiveInvoiceEvent(w)
  \/ \E w \in Workers : Commit(w)

SpecInv == Init /\ [][NextInv]_vars

\* the request workers that serve the provider-based route
ProviderWorkers == Workers \ SerialWorkers

\* a customer.subscription.updated delivery to the route that calls
\* constructEvent directly, with any signature header or none
ReceiveUpdated(w) == ReceiveOf(w, {"customer.subscription.updated"}, SigHeaders)

\* both webhook routes deployed side by side
NextRoutes ==
  \/ Tick
  \/ \E w \in SerialWorkers : ReceiveUpdated(w)
  \/ \E w \in ProviderWorkers : ProviderReceive(w)
  \/ \E w \in Workers : Commit(w)

SpecRoutes == Init /\ [][NextRoutes]_vars

\* verified deliveries of recognized types with a field missing
NextMalformed ==
  \/ Tick
  \/ \E w \in SerialWorkers : ReceiveMalformed(w)
  \/ \E w \in SerialWorkers : Commit(w)

SpecMalformed == Init /\ [][NextMalformed]_vars

\* the provider redelivering each event until it is answered 200
NextRetry ==
  \/ Tick
  \/ Emit
  \/ \E w \in SerialWorkers : Deliver(w)
  \/ \E w \in SerialWorkers : Commit(w)
  \/ \E w \in SerialWorkers : Ack(w)

\* The provider keeps delivering and reading answers, an awaited statement
\* settles, and the database does not fail for ever: a statement that is
\* attempted again and again is eventually executed.
SpecRetry ==
  /\ Init /\ [][NextRetry]_vars
  /\ \A w \in SerialWorkers :
       /\ WF_vars(Deliver(w))
       /\ WF_vars(Ack(w))
       /\ WF_vars(Commit(w))
       /\ SF_vars(Commit(w) /\ req'[w].err # "database")

\* ------------------------------------------------------ PaymentRepository
PaymentIds == {"p1", "p2"}
PaymentTypes == {"subscription", "one_time"}
PaymentStatuses == {"active", "canceled", "incomplete", "incomplete_expired",
                    "past_due", "trialing", "unpaid"}

\* private mapToPaymentRecord(record)
mapToPaymentRecord(record) ==
  [id |-> record.id,
   priceId |-> record.priceId,
   type |-> record.type,
   userId |-> record.userId,
   customerId |-> record.customerId,
   status |-> record.status,
   createdAt |-> record.createdAt,
   updatedAt |-> record.updatedAt]

\* where(and(eq(userId), eq(type, 'subscription'), inArray(status, [..])))
ActiveSubscriptionRows(table, userId) ==
  { r \in table : /\ r.userId = userId
                  /\ r.type = "subscription"
                  /\ r.status \in {"active", "trialing", "past_due"} }

\* variant: orderBy(asc(createdAt))
findActiveSubscriptionByUserIdOldest(table, userId) ==
  LET rows == ActiveSubscriptionRows(table, userId)
      first == { r \in rows : \A q \in rows : r.createdAt <= q.createdAt }
  IN IF rows = {} THEN {{}} ELSE { {mapToPaymentRecord(r)} : r \in first }

\* findActiveSubscriptionByUserId(userId): the results the query can give,
\* {} for null; rows with equal createdAt come in either order
findActiveSubscriptionByUserId(table, userId) ==
  LET rows == ActiveSubscriptionRows(table, userId)
      first == { r \in rows : \A q \in rows : q.createdAt <= r.createdAt }
  IN IF rows = {} THEN {{}} ELSE { {mapToPaymentRecord(r)} : r \in first }

\* PaymentRepository.create(data); the result of an earlier find is dropped
\* with the table it was read from
RepoCreate ==
  \E id \in PaymentIds, userId \in UserIds, type \in PaymentTypes,
     status \in PaymentStatuses :
    /\ \A r \in payment : r.id # id
    /\ payment' = payment \cup
         {[id |-> id,
           priceId |-> PAYMENT_CONFIG["basic"].stripePriceId,
           type |-> type,
           userId |-> userId,
           customerId |-> CustomerIdOf(userId),
           status |-> status,
           createdAt |-> now,
           updatedAt |-> now]}
    /\ found' = NoCall
    /\ UNCHANGED <<stripeCancels, subscriptions, invoices, now, req, act, stripeSubs,
                    lastEv, delivered, outbox>>

\* a caller awaits findActiveSubscriptionByUserId(userId)
Find ==
  \E userId \in UserIds :
    \E rows \in findActiveSubscriptionByUserId(payment, userId) :
      /\ found' = [userId |-> userId, rows |-> rows]
      /\ UNCHANGED <<stripeCancels, payment, subscriptions, invoices, now, req, act,
                      stripeSubs, lastEv, delivered, outbox>>

\* the two server actions, called one at a time
NextActions ==
  \/ Tick
  \/ CreateStart
  \/ CreateInsert
  \/ CancelStart
  \/ CancelSelect
  \/ CancelProvider
  \/ CancelCommit

SpecActions == Init /\ [][NextActions]_vars

\* createSubscription calls interleaved with verified subscription events
NextCreate ==
  \/ Tick
  \/ \E w \in SerialWorkers : ReceiveSubscriptionEvent(w)
  \/ \E w \in SerialWorkers : Commit(w)
  \/ CreateStart
  \/ CreateInsert

SpecCreate == Init /\ [][NextCreate]_vars

\* the payment repository: rows are created and the active subscription read
NextRepo ==
  \/ Tick
  \/ RepoCreate
  \/ Find

SpecRepo == Init /\ [][NextRepo]_vars

\* ------------------------------------------------------------- properties
RowsFor(table, id) == { r \in table : r.stripeSubscriptionId = id }
InvoiceRowsFor(table, id) == { r \in table : r.stripeInvoiceId = id }

\* worker w answers a delivery in this step
AnsweredInStep(w) == req'[w].pc = "done" /\ req'[w] # req[w]

\* worker w's awaited statement is executed in this step
CommittedInStep(w) == req[w].pc = "awaitDb" /\ req'[w].pc = "done"

TablesUnchanged == subscriptions' = subscriptions /\ invoices' = invoices

SignatureRejected(sig) == sig # "valid"

\* C1: a delivery whose signature verification fails is answered 400, never
\* reaches a database statement, and leaves both tables as they were.
C1_BadSignatureNoWrite ==
  /\ [](\A w \in Workers : req[w].pc = "awaitDb" => ~SignatureRejected(req[w].sig))
  /\ [][\A w \in Workers :
          (AnsweredInStep(w) /\ SignatureRejected(req'[w].sig))
            => (req'[w].resp = 400 /\ TablesUnchanged)]_vars

\* a tampered customer.subscription.updated for a stored subscription was answered 400
C1_Witness ==
  \E w \in Workers :
    /\ req[w].pc = "done" /\ req[w].sig = "tampered" /\ req[w].resp = 400
    /\ req[w].type = "customer.subscription.updated"
    /\ RowsFor(subscriptions, req[w].obj.id) # {}

\* C2: a created/updated event answered 200 leaves a row with the event's
\* provider id whose status, period and cancel-at-period-end are the event's.
C2_UpsertKeyedOnProviderId ==
  [][\A w \in Workers :
       (CommittedInStep(w) /\ req'[w].resp = 200
        /\ req[w].type \in {"customer.subscription.created", "customer.subscription.updated"})
         => \E r \in RowsFor(subscriptions', req[w].obj.id) :
              /\ r.status = req[w].obj.status
              /\ r.currentPeriodStart = 1000 * req[w].obj.current_period_start
              /\ r.currentPeriodEnd = 1000 * req[w].obj.current_period_end
              /\ r.cancelAtPeriodEnd = req[w].obj.cancel_at_period_end]_vars

\* the delivery committed in this step repeats the last event committed for its id
IsReplay(w) ==
  /\ CommittedInStep(w) /\ req'[w].resp = 200
  /\ req[w].type = "customer.subscription.updated"
  /\ lastEv[req[w].obj.id] = [type |-> req[w].type, obj |-> req[w].obj]
  /\ RowsFor(subscriptions, req[w].obj.id) # {}

\* C3 as stated: a second delivery of the same customer.subscription.updated
\* event leaves the row identical in every column, updatedAt included.
C3_ReplayIdenticalRow ==
  [][\A w \in Workers :
       IsReplay(w) => RowsFor(subscriptions', req[w].obj.id)
                        = RowsFor(subscriptions, req[w].obj.id)]_vars

\* C3 amended: a second delivery of the same customer.subscription.updated
\* event leaves the row identical in every column except updatedAt, which
\* becomes the time the second delivery's handler ran.
C3_ReplayIdenticalButUpdatedAt ==
  [][\A w \in Workers :
       IsReplay(w) => RowsFor(subscriptions', req[w].obj.id)
                        = { [r EXCEPT !.updatedAt = req[w].date] :
                              r \in RowsFor(subscriptions, req[w].obj.id) }]_vars

\* a replayed customer.subscription.updated for a stored subscription was
\* answered 200 at a later time than the first delivery
C3_Witness ==
  \E w \in Workers :
    /\ req[w].pc = "done" /\ req[w].replay /\ req[w].resp = 200
    /\ \E r \in RowsFor(subscriptions, req[w].obj.id) : r.updatedAt > r.createdAt

\* C4: the subscriptions table never holds two rows with the same provider
\* subscription id, whatever createSubscription calls and deliveries happened.
C4_UniqueProviderId ==
  \A r1 \in subscriptions, r2 \in subscriptions :
    r1.stripeSubscriptionId = r2.stripeSubscriptionId => r1 = r2

\* two createSubscription calls stored two rows and an event for the first
\* was applied to its row
C4_Witness ==
  /\ Cardinality(subscriptions) = 2
  /\ act.pc = "done" /\ act.error = "none"
  /\ \E w \in Workers :
       /\ req[w].pc = "done" /\ req[w].resp = 200
       /\ req[w].type \in {"customer.subscription.created", "customer.subscription.updated"}
       /\ \E r \in RowsFor(subscriptions, req[w].obj.id) : r.status \in EventStatuses

\* C5: when a deleted event is answered 200 and the event committed before
\* it for the same id was a created event, a row for the id exists with
\* status canceled.
C5_CreatedThenDeletedIsCanceled ==
  [][\A w \in Workers :
       (CommittedInStep(w) /\ req'[w].resp = 200
        /\ req[w].type = "customer.subscription.deleted"
        /\ lastEv[req[w].obj.id].type = "customer.subscription.created")
         => \E r \in RowsFor(subscriptions', req[w].obj.id) : r.status = "canceled"]_vars

\* C6: an invoice.payment_succeeded event for an invoice id without a row,
\* delivered while the database is up, is answered 200 and leaves exactly
\* one row for the id, with the event's amount and currency and status paid.
C6_NewInvoiceStored ==
  [][\A w \in Workers :
       (CommittedInStep(w) /\ req[w].type = "invoice.payment_succeeded"
        /\ req'[w].err # "database"
        /\ InvoiceRowsFor(invoices, req[w].obj.id) = {})
         => /\ req'[w].resp = 200
            /\ Cardinality(InvoiceRowsFor(invoices', req[w].obj.id)) = 1
            /\ \A r \in InvoiceRowsFor(invoices', req[w].obj.id) :
                 /\ r.amount = req[w].obj.amount_paid
                 /\ r.currency = req[w].obj.currency
                 /\ r.status = "paid"]_vars

\* C7: after every delivery of an invoice.payment_succeeded event made while
\* the database is up, the first and each replay, the invoices table holds
\* exactly one row with the event's invoice id.
C7_OneInvoiceRowAfterReplays ==
  [][\A w \in Workers :
       (CommittedInStep(w) /\ req[w].type = "invoice.payment_succeeded"
        /\ req'[w].err # "database")
         => Cardinality(InvoiceRowsFor(invoices', req[w].obj.id)) = 1]_vars

\* C8: a verified event of a type the switch does not name is answered 200,
\* never awaits a database statement, and leaves both tables as they were.
C8_UnregisteredTypeAcknowledged ==
  /\ [](\A w \in Workers : req[w].pc = "awaitDb" => req[w].type \in RegisteredTypes)
  /\ [][\A w \in Workers :
          (AnsweredInStep(w) /\ ~SignatureRejected(req'[w].sig)
           /\ req'[w].type \notin RegisteredTypes)
            => (req'[w].resp = 200 /\ TablesUnchanged)]_vars

\* a verified customer.subscription.paused for a stored subscription was answered 200
C8_Witness ==
  \E w \in Workers :
    /\ req[w].pc = "done" /\ req[w].sig = "valid" /\ req[w].resp = 200
    /\ req[w].type = "customer.subscription.paused"
    /\ RowsFor(subscriptions, req[w].obj.id) # {}

\* C9: a delivery whose handler throws is answered 500 and leaves both
\* tables as they were.
C9_HandlerFailureIs500 ==
  [][\A w \in Workers :
       (AnsweredInStep(w) /\ req'[w].err \in {"database", "foreign_key", "unique"})
         => (req'[w].resp = 500 /\ TablesUnchanged)]_vars

\* the statement of a customer.subscription.updated for a stored subscription failed
C9_Witness ==
  \E w \in Workers :
    /\ req[w].pc = "done" /\ req[w].err = "database" /\ req[w].resp = 500
    /\ req[w].type = "customer.subscription.updated"
    /\ RowsFor(subscriptions, req[w].obj.id) # {}

\* the row a subscription event leaves when its statement runs alone on row r
SerialEffect(r, q) ==
  IF q.type = "customer.subscription.deleted"
    THEN [r EXCEPT !.status = "canceled", !.updatedAt = q.date]
    ELSE [r EXCEPT !.status = q.obj.status,
                   !.currentPeriodStart = 1000 * q.obj.current_period_start,
                   !.currentPeriodEnd = 1000 * q.obj.current_period_end,
                   !.cancelAtPeriodEnd = q.obj.cancel_at_period_end,
                   !.updatedAt = q.date]

\* C10: each subscription write applies, whole, to the row the earlier
\* commits left: the row after a commit is the serial effect of that event
\* on the row before it, so the final row is the one the deliveries give
\* when run one after the other in commit order, and the id keeps one row.
C10_WritesSerializeInCommitOrder ==
  [][\A w \in Workers :
       (CommittedInStep(w) /\ req'[w].resp = 200 /\ req[w].type \in SubscriptionTypes)
         => /\ RowsFor(subscriptions', req[w].obj.id)
                 = { SerialEffect(r, req[w]) : r \in RowsFor(subscriptions, req[w].obj.id) }
            /\ Cardinality(RowsFor(subscriptions', req[w].obj.id))
                 = Cardinality(RowsFor(subscriptions, req[w].obj.id))
            /\ subscriptions' \ RowsFor(subscriptions', req[w].obj.id)
                 = subscriptions \ RowsFor(subscriptions, req[w].obj.id)]_vars

\* two deliveries for one stored subscription overlapped, both were
\* answered 200, and the deleted event committed last
C10_Witness ==
  /\ \A w \in Workers : req[w].pc = "done" /\ req[w].conc /\ req[w].resp = 200
  /\ \E w \in Workers : req[w].type = "customer.subscription.updated"
  /\ \E w \in Workers : req[w].type = "customer.subscription.deleted"
  /\ \E r \in subscriptions :
       /\ r.stripeSubscriptionId = req["w1"].obj.id
       /\ r.stripeSubscriptionId = req["w2"].obj.id
       /\ r.status = "canceled" /\ r.cancelAtPeriodEnd = TRUE

\* C11: when two invoice.payment_succeeded deliveries for one invoice id that
\* had no row overlap and the database is up, both are answered 200 and the
\* id has exactly one row.
C11_ConcurrentInvoiceUpsert ==
  \A w \in Workers, v \in Workers :
    (/\ w # v /\ delivered = 2
     /\ req[w].pc = "done" /\ req[v].pc = "done"
     /\ req[w].conc /\ req[v].conc
     /\ req[w].type = "invoice.payment_succeeded"
     /\ req[v].type = "invoice.payment_succeeded"
     /\ req[w].obj.id = req[v].obj.id
     /\ req[w].err # "database" /\ req[v].err # "database")
      => /\ req[w].resp = 200 /\ req[v].resp = 200
         /\ Cardinality(InvoiceRowsFor(invoices, req[w].obj.id)) = 1

\* C13: no step removes a subscriptions row or changes a row's identifiers;
\* a customer.subscription.deleted event answered 200 leaves every row of its
\* provider id in place with status canceled.
C13_RowsNeverRemoved ==
  [][/\ { <<r.id, r.stripeSubscriptionId>> : r \in subscriptions }
          \subseteq { <<r.id, r.stripeSubscriptionId>> : r \in subscriptions' }
     /\ \A w \in Workers :
          (CommittedInStep(w) /\ req'[w].resp = 200
           /\ req[w].type = "customer.subscription.deleted")
            => /\ Cardinality(RowsFor(subscriptions', req[w].obj.id))
                    = Cardinality(RowsFor(subscriptions, req[w].obj.id))
               /\ \A r \in RowsFor(subscriptions', req[w].obj.id) :
                    r.status = "canceled"]_vars

\* a customer.subscription.deleted for a stored subscription was answered
\* 200 and its row is there, canceled, next to the other row
C13_Witness ==
  \E w \in Workers :
    /\ req[w].pc = "done" /\ req[w].resp = 200
    /\ req[w].type = "customer.subscription.deleted"
    /\ \E r \in RowsFor(subscriptions, req[w].obj.id) : r.status = "canceled"
    /\ Cardinality(subscriptions) = 2

HitsStoredInvoice(w) ==
  /\ CommittedInStep(w) /\ req[w].type = "invoice.payment_succeeded"
  /\ req'[w].err # "database"
  /\ InvoiceRowsFor(invoices, req[w].obj.id) # {}

\* C15 as stated: an invoice.payment_succeeded event for a stored invoice id
\* leaves the row paid with the event's amount, currency and links.
C15_ConflictSetsAmountAndCurrency ==
  [][\A w \in Workers :
       HitsStoredInvoice(w)
         => /\ req'[w].resp = 200
            /\ \A r \in InvoiceRowsFor(invoices', req[w].obj.id) :
                 /\ r.status = "paid"
                 /\ r.amount = req[w].obj.amount_paid
                 /\ r.currency = req[w].obj.currency
                 /\ r.hostedInvoiceUrl = req[w].obj.hosted_invoice_url
                 /\ r.invoicePdf = req[w].obj.invoice_pdf]_vars

\* C15 amended: an invoice.payment_succeeded event for a stored invoice id
\* is answered 200 and sets the row's status to paid and its links to the
\* event's; the amount and the currency stay as stored.
C15_ConflictSetsStatusAndLinks ==
  [][\A w \in Workers :
       HitsStoredInvoice(w)
         => /\ req'[w].resp = 200
            /\ InvoiceRowsFor(invoices', req[w].obj.id)
                 = { [r EXCEPT !.status = "paid",
                               !.hostedInvoiceUrl = req[w].obj.hosted_invoice_url,
                               !.invoicePdf = req[w].obj.invoice_pdf] :
                       r \in InvoiceRowsFor(invoices, req[w].obj.id) }]_vars

\* two deliveries for one invoice id were both answered 200: the second met
\* the row of the first
C15_Witness ==
  /\ delivered = 2
  /\ \A w \in Workers :
       /\ req[w].pc = "done" /\ req[w].resp = 200
       /\ req[w].type = "invoice.payment_succeeded"
  /\ req["w1"].obj.id = req["w2"].obj.id
  /\ InvoiceRowsFor(invoices, req["w1"].obj.id) # {}

\* C19 as stated: a row with status paid keeps every column but status in
\* every step.
C19_PaidRowOnlyStatusChanges ==
  [][\A r \in invoices :
       r.status = "paid"
         => \E q \in invoices' : q = [r EXCEPT !.status = q.status]]_vars

\* C19 amended: a row with status paid keeps every column but status,
\* hostedInvoiceUrl and invoicePdf in every step.
C19_PaidRowKeepsAmountAndOwner ==
  [][\A r \in invoices :
       r.status = "paid"
         => \E q \in invoices' :
              q = [r EXCEPT !.status = q.status,
                            !.hostedInvoiceUrl = q.hostedInvoiceUrl,
                            !.invoicePdf = q.invoicePdf]]_vars

\* a paid row was met by a later, non-overlapping delivery for its invoice id
\* that carried the reissued link
C19_Witness ==
  /\ delivered = 2
  /\ \A w \in Workers :
       /\ req[w].pc = "done" /\ req[w].resp = 200 /\ ~req[w].conc
       /\ req[w].type = "invoice.payment_succeeded"
       /\ req[w].obj.id = "in_1"
  /\ \E r \in InvoiceRowsFor(invoices, "in_1") :
       r.status = "paid" /\ r.hostedInvoiceUrl = "https://x2"

\* C12: every answer is 200, 400 or 500; it is 400 exactly when the
\* signature does not verify, 500 exactly when it verifies and the handler
\* throws, 200 exactly when it verifies and no handler throws; an answer
\* once given is replaced only by the answer to a later delivery.
C12_OneResponsePerDelivery ==
  /\ [][\A w \in Workers :
          AnsweredInStep(w)
            => /\ req'[w].resp \in {200, 400, 500}
               /\ (req'[w].resp = 400) <=> SignatureRejected(req'[w].sig)
               /\ (req'[w].resp = 500) <=>
                    (/\ ~SignatureRejected(req'[w].sig)
                     /\ req'[w].err \in {"database", "foreign_key", "unique"})
               /\ (req'[w].resp = 200) <=>
                    (~SignatureRejected(req'[w].sig) /\ req'[w].err = "none")]_vars
  /\ [][\A w \in Workers :
          (req[w].pc = "done" /\ req'[w] # req[w]) => delivered' = delivered + 1]_vars

\* after an earlier delivery, a verified invoice.payment_succeeded whose
\* statement broke the foreign key was answered 500
C12_Witness ==
  /\ delivered = 2
  /\ \E w \in Workers :
       /\ req[w].pc = "done" /\ req[w].sig = "valid"
       /\ req[w].type = "invoice.payment_succeeded"
       /\ req[w].err = "foreign_key" /\ req[w].resp = 500

\* C18: a request without a stripe-signature header never awaits a database
\* statement and is answered 400 with both tables as they were, on the
\* route that calls constructEvent and on the provider-based route.
C18_MissingSignatureRejected ==
  /\ [](\A w \in Workers : req[w].pc = "awaitDb" => req[w].sig # "null")
  /\ [][\A w \in Workers :
          (AnsweredInStep(w) /\ req'[w].sig = "null")
            => (req'[w].resp = 400 /\ TablesUnchanged)]_vars

\* both routes answered 400 to a customer.subscription.updated request
\* without the header, for a stored subscription
C18_Witness ==
  /\ \E w \in Workers :
       /\ req[w].pc = "done" /\ req[w].route = "direct" /\ req[w].sig = "null"
       /\ req[w].resp = 400 /\ req[w].type = "customer.subscription.updated"
       /\ RowsFor(subscriptions, req[w].obj.id) # {}
  /\ \E w \in Workers :
       /\ req[w].pc = "done" /\ req[w].route = "provider" /\ req[w].sig = "null"
       /\ req[w].resp = 400 /\ req[w].err = "missing_signature"
       /\ req[w].type = "customer.subscription.updated"

\* C20: when the insert of createSubscription commits after the only
\* delivery so far, a created or updated event for the new subscription that
\* was received and answered 200 while the insert was pending, the inserted
\* row's status is the status that event carried.
C20_EventBeforeInsertNotLost ==
  [][(/\ act.pc = "awaitDb" /\ act'.pc = "done" /\ act'.error = "none"
      /\ delivered = 1)
       => \A w \in Workers :
            (/\ req[w].pc = "done" /\ req[w].early /\ req[w].resp = 200
             /\ req[w].type \in {"customer.subscription.created",
                                 "customer.subscription.updated"}
             /\ req[w].obj.id = act.values.stripeSubscriptionId)
              => \A r \in RowsFor(subscriptions', req[w].obj.id) :
                   r.status = lastEv[req[w].obj.id].obj.status]_vars

AnswersMalformed(w) ==
  /\ AnsweredInStep(w) /\ ~SignatureRejected(req'[w].sig)
  /\ req'[w].type \in RegisteredTypes
  /\ IF CommittedInStep(w)
       THEN ~(ReadFields(req[w].type) \subseteq DOMAIN req[w].obj)
       ELSE req'[w].obj.id = "null"

\* C17: a verified event of a recognized type whose payload lacks a field
\* the handler reads is answered 500 and leaves both tables as they were.
C17_MalformedPayloadIs500 ==
  [][\A w \in Workers :
       AnswersMalformed(w) => (req'[w].resp = 500 /\ TablesUnchanged)]_vars

\* C21 as stated: a row with status canceled has status canceled after
\* every step.
C21_CanceledIsTerminal ==
  [][\A r \in subscriptions :
       r.status = "canceled"
         => \A q \in RowsFor(subscriptions', r.stripeSubscriptionId) :
              q.status = "canceled"]_vars

\* the step commits, with answer 200, a created or updated event for id
OverwritesStatus(w, id) ==
  /\ CommittedInStep(w) /\ req'[w].resp = 200
  /\ req[w].type \in {"customer.subscription.created", "customer.subscription.updated"}
  /\ req[w].obj.id = id

\* C21 amended: a row with status canceled keeps that status in every step
\* except the commit of a created or updated event for its provider id,
\* which sets the status to the one the event carries.
C21_CanceledUntilOverwritten ==
  [][\A r \in subscriptions :
       r.status = "canceled"
         => \A q \in RowsFor(subscriptions', r.stripeSubscriptionId) :
              IF \E w \in Workers : OverwritesStatus(w, r.stripeSubscriptionId)
                THEN \E w \in Workers :
                       /\ OverwritesStatus(w, r.stripeSubscriptionId)
                       /\ q.status = req[w].obj.status
                ELSE q.status = "canceled"]_vars

\* a deleted and an updated event for one stored subscription were both
\* answered 200, the updated one last: the row is back to the event's status
C21_Witness ==
  /\ \A w \in Workers : req[w].pc = "done" /\ req[w].resp = 200 /\ req[w].obj.id = "sub_1"
  /\ \E w \in Workers : req[w].type = "customer.subscription.deleted"
  /\ \E w \in Workers : req[w].type = "customer.subscription.updated"
  /\ lastEv["sub_1"].type = "customer.subscription.updated"
  /\ \E r \in RowsFor(subscriptions, "sub_1") : r.status \in {"active", "past_due"}

\* C22: cancelSubscription calls the provider or writes a row only for a
\* subscription whose row belongs to the user of the session.
C22_CancelOnlyOwnSubscription ==
  [][(/\ act.pc \in {"cancelProvider", "cancelUpdate"}
      /\ (stripeCancels' # stripeCancels \/ subscriptions' # subscriptions))
       => \A r \in RowsFor(subscriptions, act.subscriptionId) : r.userId = act.user]_vars

\* createSubscription returns successfully in this step
CreateReturns == act.pc = "awaitDb" /\ act'.pc = "done" /\ act'.error = "none"

\* C23: when createSubscription returns successfully, the table has gained
\* exactly one row: it has the returned provider id, the session's user, the
\* chosen plan and its price, and the status the provider reported.
C23_CreateStoresOneRow ==
  [][CreateReturns
       => /\ act'.subscriptionId = act.subscription.id
          /\ RowsFor(subscriptions, act.subscription.id) = {}
          /\ Cardinality(RowsFor(subscriptions', act.subscription.id)) = 1
          /\ subscriptions' \ RowsFor(subscriptions', act.subscription.id) = subscriptions
          /\ \A q \in RowsFor(subscriptions', act.subscription.id) :
               /\ q.userId = act.user /\ q.userId \in {"u1", "u2"}
               /\ q.planId = act.planId
               /\ q.stripePriceId = PAYMENT_CONFIG[act.planId].stripePriceId
               /\ q.status = act.subscription.status]_vars

\* createSubscription of u1 returned the id of the one row, stored as the
\* provider reported it
C23_Witness ==
  /\ act.pc = "done" /\ act.error = "none"
  /\ Cardinality(subscriptions) = 1
  /\ \E r \in RowsFor(subscriptions, act.subscriptionId) :
       r.userId = "u1" /\ r.status = "incomplete" /\ r.planId = "basic"

\* C24: after createSubscription has failed, every subscription that exists
\* at the provider has a local row.
C24_NoOrphanAfterFailure ==
  (act.pc = "done" /\ act.error = "Failed to create subscription")
    => \A s \in stripeSubs : RowsFor(subscriptions, s) # {}

\* C25: a successful cancelSubscription leaves the row canceled with
\* cancelAtPeriodEnd false when immediate, and with cancelAtPeriodEnd true
\* and its status untouched otherwise; the provider holds the cancellation
\* before the update is awaited; the provider step writes no row and a
\* failing provider call leaves the tables and the provider as they were.
C25_CancelEffect ==
  /\ [](act.pc = "cancelUpdate"
         => stripeCancels[act.subscriptionId]
              = IF act.immediate THEN "canceled" ELSE "at_period_end")
  /\ [][(act.pc = "cancelUpdate" /\ act'.pc = "done" /\ act'.error = "none")
          => /\ RowsFor(subscriptions, act.subscriptionId) # {}
             /\ RowsFor(subscriptions', act.subscriptionId)
                  = { IF act.immediate
                        THEN [r EXCEPT !.status = "canceled",
                                       !.cancelAtPeriodEnd = FALSE,
                                       !.updatedAt = act.date]
                        ELSE [r EXCEPT !.cancelAtPeriodEnd = TRUE,
                                       !.updatedAt = act.date] :
                        r \in RowsFor(subscriptions, act.subscriptionId) }]_vars
  /\ [][act.pc = "cancelProvider"
          => /\ TablesUnchanged
             /\ (act'.pc = "done" => stripeCancels' = stripeCancels)]_vars

\* cancelSubscription(sub_1) at period end succeeded: the provider holds it
\* and the row has cancelAtPeriodEnd set and its status as before
C25_Witness ==
  /\ act.pc = "done" /\ act.error = "none"
  /\ stripeCancels["sub_1"] = "at_period_end"
  /\ \E r \in RowsFor(subscriptions, "sub_1") :
       r.cancelAtPeriodEnd /\ r.status = "incomplete"

ProviderAndTablesUnchanged ==
  /\ TablesUnchanged
  /\ stripeSubs' = stripeSubs
  /\ stripeCancels' = stripeCancels

SameIdentity(q, r) ==
  /\ q.id = r.id /\ q.userId = r.userId /\ q.planId = r.planId
  /\ q.stripePriceId = r.stripePriceId /\ q.stripeCustomerId = r.stripeCustomerId
  /\ q.createdAt = r.createdAt

\* C27: the commit of a subscription event for provider id S leaves the
\* invoices table and every row of another provider id as they were, and on
\* the rows of S it keeps id, userId, planId, stripePriceId, stripeCustomerId
\* and createdAt; a deleted event keeps the period and cancelAtPeriodEnd as
\* well; the commit of an invoice.payment_succeeded leaves the subscriptions
\* table as it was.
C27_WebhookFrame ==
  [][\A w \in Workers :
       CommittedInStep(w)
         => /\ req[w].type \in SubscriptionTypes
                 => /\ invoices' = invoices
                    /\ { r \in subscriptions' : r.stripeSubscriptionId # req[w].obj.id }
                         = { r \in subscriptions : r.stripeSubscriptionId # req[w].obj.id }
                    /\ \A q \in RowsFor(subscriptions', req[w].obj.id) :
                         \E r \in RowsFor(subscriptions, req[w].obj.id) :
                           /\ SameIdentity(q, r)
                           /\ req[w].type = "customer.subscription.deleted"
                                => /\ q.currentPeriodStart = r.currentPeriodStart
                                   /\ q.currentPeriodEnd = r.currentPeriodEnd
                                   /\ q.cancelAtPeriodEnd = r.cancelAtPeriodEnd
            /\ req[w].type = "invoice.payment_succeeded"
                 => subscriptions' = subscriptions]_vars

\* an updated event for sub_1 was answered 200 and applied, and the row of
\* sub_2 is as seeded
C27_Witness ==
  /\ \E w \in Workers :
       /\ req[w].pc = "done" /\ req[w].resp = 200
       /\ req[w].type = "customer.subscription.updated" /\ req[w].obj.id = "sub_1"
  /\ \E r \in RowsFor(subscriptions, "sub_1") : r.status \in {"active", "past_due"}
  /\ \E r \in RowsFor(subscriptions, "sub_2") : r.status = "incomplete" /\ r.userId = "u2"

\* C28: the row a created or updated event leaves, and the row
\* createSubscription inserts, hold the period's epoch seconds times 1000,
\* so a period with start <= end is stored with start <= end.
C28_PeriodInMilliseconds ==
  /\ [][\A w \in Workers :
          (CommittedInStep(w) /\ req'[w].resp = 200
           /\ req[w].type \in {"customer.subscription.created",
                               "customer.subscription.updated"})
            => \A q \in RowsFor(subscriptions', req[w].obj.id) :
                 /\ q.currentPeriodStart = 1000 * req[w].obj.current_period_start
                 /\ q.currentPeriodEnd = 1000 * req[w].obj.current_period_end
                 /\ req[w].obj.current_period_start <= req[w].obj.current_period_end
                      => q.currentPeriodStart <= q.currentPeriodEnd]_vars
  /\ [][CreateReturns
          => \A q \in RowsFor(subscriptions', act.subscription.id) :
               /\ q.currentPeriodStart = 1000 * act.subscription.current_period_start
               /\ q.currentPeriodEnd = 1000 * act.subscription.current_period_end
               /\ act.subscription.current_period_start
                    <= act.subscription.current_period_end
                    => q.currentPeriodStart <= q.currentPeriodEnd]_vars

\* createSubscription stored a row and a later event moved its period end
C28_Witness ==
  /\ act.pc = "done" /\ act.error = "none"
  /\ \E w \in Workers :
       /\ req[w].pc = "done" /\ req[w].resp = 200
       /\ req[w].type = "customer.subscription.updated"
       /\ req[w].obj.id = act.subscriptionId
  /\ \E r \in RowsFor(subscriptions, act.subscriptionId) :
       /\ r.currentPeriodStart = 1000
       /\ r.currentPeriodEnd = 1000 * MaxSec
       /\ r.status \in {"active", "past_due"}

\* C29: the last findActiveSubscriptionByUserId(U) returned null exactly
\* when no row of U has type subscription and status active, trialing or
\* past_due; otherwise it returned one such row, of greatest createdAt.
C29_FindActiveSubscription ==
  found.userId # "none"
    => LET eligible == { r \in payment :
                           /\ r.userId = found.userId
                           /\ r.type = "subscription"
                           /\ r.status \in {"active", "trialing", "past_due"} }
       IN /\ found.rows \subseteq eligible
          /\ Cardinality(found.rows) <= 1
          /\ (found.rows = {}) <=> (eligible = {})
          /\ \A r \in found.rows :
               /\ \A q \in eligible : q.createdAt <= r.createdAt
               /\ r.status \notin {"canceled", "incomplete",
                                   "incomplete_expired", "unpaid"}

\* u1 has two eligible rows created at different times, and a canceled one
\* would be older still: the find returned the newer row
C29_Witness ==
  /\ found.userId = "u1"
  /\ \E r \in found.rows : r.createdAt = 1 /\ r.status = "trialing"
  /\ \E q \in payment : q.userId = "u1" /\ q.type = "subscription"
                        /\ q.status = "active" /\ q.createdAt = 0

====
